---- MODULE Spec2Model ----
(***************************************************************************)
(* ATS Resume Builder backend proxy: the Express apps (src/server.js and   *)
(* src/unnamed/part_000), the serverless handlers (src/api/*.js) and the   *)
(* standalone chat handler (src/unnamed/part_001).                         *)
(***************************************************************************)
EXTENDS Integers, Sequences, FiniteSets, TLC

(***************************************************************************)
(* Decoded JSON values.  A value is a record [t, s, n]: t is the JavaScript *)
(* type, s the text of a string whose identity matters, n the length of a  *)
(* string or array, or the integer part (floor) of a number, and f the     *)
(* tenths of a number's fractional part (0.6 is n = 0, f = 6).             *)
(***************************************************************************)
Undef == [t |-> "undefined", s |-> "", n |-> 0, f |-> 0]

Null == [t |-> "null", s |-> "", n |-> 0, f |-> 0]

Str(s, len) == [t |-> "string", s |-> s, n |-> len, f |-> 0]

Num(whole, tenths) == [t |-> "number", s |-> "", n |-> whole, f |-> tenths]

Bool(b) == [t |-> "boolean", s |-> "", n |-> IF b THEN 1 ELSE 0, f |-> 0]

Arr(len) == [t |-> "array", s |-> "", n |-> len, f |-> 0]

\* JavaScript truthiness (the ! operator and the || operator read it)
Truthy(v) ==
    CASE v.t = "undefined" -> FALSE
      [] v.t = "null" -> FALSE
      [] v.t = "string" -> v.n > 0
      [] v.t = "number" -> v.n # 0 \/ v.f # 0
      [] v.t = "boolean" -> v.n = 1
      [] OTHER -> TRUE

\* typeof v
TypeOf(v) == IF v.t \in {"null", "array"} THEN "object" ELSE v.t

\* v.length: defined for strings and arrays, undefined otherwise
HasLength(v) == v.t \in {"string", "array"}

\* Number.isInteger(v)
IsInteger(v) == v.t = "number" /\ v.f = 0

\* v < k and v > k for a number v and an integer k
NumLt(v, k) == v.n < k

NumGt(v, k) == v.n > k \/ (v.n = k /\ v.f > 0)

\* the roles the validators accept
ValidRoles == {"system", "user", "assistant"}

\* ['system', 'user', 'assistant'].includes(v)
RoleIncluded(v) == v.t = "string" /\ v.s \in ValidRoles

\* limits of the chat validators
MaxContentLength == 50000

MinTemperature == 0

MaxTemperature == 2

MinTokens == 1

MaxTokens == 4000

(***************************************************************************)
(* An element of body.messages: null, or a value whose .role and .content  *)
(* can be read (an object; a primitive reads as both undefined).           *)
(***************************************************************************)
NullMsg == [k |-> "null", role |-> Undef, content |-> Undef]

Msg(role, content) == [k |-> "object", role |-> role, content |-> content]

\* a violation string, by its template and the index it names (-1: none)
Violation(kind, index) == [kind |-> kind, index |-> index]

\* body.messages: its type and, for an array, its elements
Messages(t, items) == [t |-> t, items |-> items]

\* a decoded request body (k = "undefined": the request carried none)
Body(messages, model, temperature, max_tokens, text) ==
    [k |-> "object", messages |-> messages, model |-> model,
     temperature |-> temperature, max_tokens |-> max_tokens, text |-> text]

NoBody ==
    [k |-> "undefined", messages |-> Messages("undefined", <<>>), model |-> Undef,
     temperature |-> Undef, max_tokens |-> Undef, text |-> Undef]

\* the three checks of one element of messages, in the order the code makes them
MessageErrors(msg, index) ==
    (IF ~Truthy(msg.role) \/ ~RoleIncluded(msg.role)
        THEN <<Violation("role", index)>> ELSE <<>>)
    \o (IF ~Truthy(msg.content) \/ TypeOf(msg.content) # "string"
        THEN <<Violation("content", index)>> ELSE <<>>)
    \o (IF Truthy(msg.content) /\ HasLength(msg.content)
            /\ msg.content.n > MaxContentLength
        THEN <<Violation("length", index)>> ELSE <<>>)

\* body.messages.forEach(...): reading .role of null throws a TypeError, which
\* ends the loop and the function
RECURSIVE ForEachMessage(_, _, _)
ForEachMessage(items, i, errors) ==
    IF i > Len(items) THEN [threw |-> FALSE, errors |-> errors]
    ELSE IF items[i].k = "null" THEN [threw |-> TRUE, errors |-> errors]
    ELSE ForEachMessage(items, i + 1, errors \o MessageErrors(items[i], i - 1))

ModelErrors(body) ==
    IF Truthy(body.model) /\ TypeOf(body.model) # "string"
    THEN <<Violation("model", -1)>> ELSE <<>>

TemperatureErrors(body) ==
    IF body.temperature.t # "undefined"
       /\ (TypeOf(body.temperature) # "number"
           \/ NumLt(body.temperature, MinTemperature)
           \/ NumGt(body.temperature, MaxTemperature))
    THEN <<Violation("temperature", -1)>> ELSE <<>>

MaxTokensErrors(body) ==
    IF body.max_tokens.t # "undefined"
       /\ (~IsInteger(body.max_tokens)
           \/ NumLt(body.max_tokens, MinTokens)
           \/ NumGt(body.max_tokens, MaxTokens))
    THEN <<Violation("max_tokens", -1)>> ELSE <<>>

\* validateChatRequest(body): the list it returns, or threw = TRUE when it throws
validateChatRequest(body) ==
    IF body.k = "undefined" THEN [threw |-> TRUE, errors |-> <<>>]
    ELSE LET first ==
                 IF body.messages.t # "array"
                 THEN [threw |-> FALSE, errors |-> <<Violation("messagesArray", -1)>>]
                 ELSE IF Len(body.messages.items) = 0
                 THEN [threw |-> FALSE, errors |-> <<Violation("messagesEmpty", -1)>>]
                 ELSE ForEachMessage(body.messages.items, 1, <<>>)
         IN IF first.threw THEN first
            ELSE [threw |-> FALSE,
                  errors |-> first.errors \o ModelErrors(body)
                             \o TemperatureErrors(body) \o MaxTokensErrors(body)]

(***************************************************************************)
(* Responses.  One record shape for every response: absent fields are ""   *)
(* (error, code, method), 0 (retryAfter) or has* = FALSE.                  *)
(***************************************************************************)
NoResp ==
    [status |-> 0, json |-> FALSE, error |-> "", code |-> "",
     hasDetails |-> FALSE, details |-> <<>>, retryAfter |-> 0,
     success |-> FALSE, model |-> Undef, content |-> Undef, usage |-> Undef,
     apiConfigured |-> Undef, models |-> <<>>, totalCount |-> 0,
     method |-> "", data |-> <<>>, rawContent |-> <<>>]

\* res.status(status).json({ error, code })
ErrorResp(status, error, code) ==
    [NoResp EXCEPT !.status = status, !.json = TRUE, !.error = error, !.code = code]

\* res.status(400).json({ error: 'Invalid request', details, code: 'VALIDATION_ERROR' })
DetailsResp(details) ==
    [ErrorResp(400, "Invalid request", "VALIDATION_ERROR")
        EXCEPT !.hasDetails = TRUE, !.details = details]

\* res.status(status).end(): no body
EndResp(status) == [NoResp EXCEPT !.status = status]

\* res.status(405).json({ error: 'Method not allowed' })
MethodNotAllowed == ErrorResp(405, "Method not allowed", "")

\* the health payload
HealthResp(configured) ==
    [NoResp EXCEPT !.status = 200, !.json = TRUE, !.apiConfigured = Bool(configured)]

\* the platform's answer when a serverless function throws: not written by
\* this code, and no JSON envelope of it
PlatformCrash == [NoResp EXCEPT !.status = 500]

(***************************************************************************)
(* Configuration: process.env.OPENROUTER_API_KEY is undefined or a string. *)
(***************************************************************************)
DefaultModel == Str("meta-llama/llama-3.1-8b-instruct:free", 37)

DefaultTemperature == Num(0, 6)

DefaultMaxTokens == Num(1000, 0)

ParseTemperature == Num(0, 3)

ParseMaxTokens == Num(2000, 0)

MaxResumeLength == 100000

MinKeyLength == 10

PromptTextLength == 12000

\* x || y
OrElse(x, y) == IF Truthy(x) THEN x ELSE y

\* a destructuring default: used when the field is undefined
Default(x, d) == IF x.t = "undefined" THEN d ELSE x

(***************************************************************************)
(* The first segment of a handler, up to its first await or its response:  *)
(* act = "respond" with resp, act = "fetch" with the request it sends      *)
(* upstream, or act = "throw" when it throws outside every try block.      *)
(***************************************************************************)
NoSent ==
    [url |-> "", key |-> Undef, model |-> Undef, temperature |-> Undef,
     max_tokens |-> Undef, messages |-> Messages("undefined", <<>>), clip |-> 0]

Respond(resp) == [act |-> "respond", resp |-> resp, sent |-> NoSent]

Throw == [act |-> "throw", resp |-> NoResp, sent |-> NoSent]

Fetch(sent) == [act |-> "fetch", resp |-> NoResp, sent |-> sent]

KeyMissing(code, error) == Respond(ErrorResp(500, error, code))

\* fetch(`${OPENROUTER_BASE_URL}/chat/completions`, ...) of the chat handlers
ChatFetch(key, body) ==
    Fetch([url |-> "chat", key |-> key,
           model |-> OrElse(body.model, DefaultModel),
           temperature |-> Default(body.temperature, DefaultTemperature),
           max_tokens |-> Default(body.max_tokens, DefaultMaxTokens),
           messages |-> body.messages, clip |-> 0])

\* const errors = validateChatRequest(req.body), the 400 it leads to, and
\* otherwise the rest of the handler
ValidatedChat(body, rest) ==
    LET v == validateChatRequest(body)
    IN IF v.threw THEN Throw
       ELSE IF Len(v.errors) > 0 THEN Respond(DetailsResp(v.errors))
       ELSE rest

\* app.post('/api/chat') of src/server.js
ServerChat(key, body) == ValidatedChat(body, ChatFetch(key, body))

\* app.post('/api/chat') of part_000: the key check comes first
IndexChat(key, body) ==
    IF ~Truthy(key)
    THEN KeyMissing("API_KEY_MISSING", "API key not configured on server")
    ELSE ValidatedChat(body, ChatFetch(key, body))

\* part_001's handler after its method check: the key check comes second
AltChat(key, body) ==
    ValidatedChat(body,
        IF ~Truthy(key) THEN KeyMissing("CONFIG_ERROR", "API key not configured")
        ELSE ChatFetch(key, body))

\* the loop of src/api/chat.js over messages: the first failing check returns
RECURSIVE ApiChatLoop(_, _, _, _)
ApiChatLoop(key, body, items, i) ==
    IF i > Len(items) THEN ChatFetch(key, body)
    ELSE LET msg == items[i]
         IN IF msg.k = "null" THEN Throw
            ELSE IF ~Truthy(msg.role) \/ ~RoleIncluded(msg.role)
            THEN Respond(ErrorResp(400,
                     "Invalid message role at index " \o ToString(i - 1),
                     "VALIDATION_ERROR"))
            ELSE IF ~Truthy(msg.content) \/ TypeOf(msg.content) # "string"
            THEN Respond(ErrorResp(400,
                     "Invalid message content at index " \o ToString(i - 1),
                     "VALIDATION_ERROR"))
            ELSE IF msg.content.n > MaxContentLength
            THEN Respond(ErrorResp(400,
                     "Message content too long at index " \o ToString(i - 1),
                     "VALIDATION_ERROR"))
            ELSE ApiChatLoop(key, body, items, i + 1)

\* src/api/chat.js after its method checks
ApiChat(key, body) ==
    IF ~Truthy(key)
    THEN KeyMissing("API_KEY_MISSING", "API key not configured on server")
    ELSE IF body.k = "undefined" THEN Throw
    ELSE IF body.messages.t # "array" \/ Len(body.messages.items) = 0
    THEN Respond(ErrorResp(400, "Invalid request: messages array is required",
                           "VALIDATION_ERROR"))
    ELSE ApiChatLoop(key, body, body.messages.items, 1)

\* a length check that turns away a text of exactly the maximum length
ParseResumeBelowMax(key, body) ==
    IF body.k = "undefined" THEN Throw
    ELSE IF ~Truthy(body.text) \/ TypeOf(body.text) # "string"
    THEN Respond(ErrorResp(400, "Resume text is required", "VALIDATION_ERROR"))
    ELSE IF body.text.n >= MaxResumeLength
    THEN Respond(ErrorResp(400, "Resume text exceeds maximum length",
                           "VALIDATION_ERROR"))
    ELSE Fetch([url |-> "chat", key |-> key,
                model |-> OrElse(body.model, DefaultModel),
                temperature |-> ParseTemperature,
                max_tokens |-> ParseMaxTokens,
                messages |-> Messages("prompt", <<>>),
                clip |-> IF body.text.n < PromptTextLength
                         THEN body.text.n ELSE PromptTextLength])

\* the two checks of text in the parse-resume handlers, then the fetch with
\* the fixed prompt around text.substring(0, 12000)
ParseResume(key, body) ==
    IF body.k = "undefined" THEN Throw
    ELSE IF ~Truthy(body.text) \/ TypeOf(body.text) # "string"
    THEN Respond(ErrorResp(400, "Resume text is required", "VALIDATION_ERROR"))
    ELSE IF body.text.n > MaxResumeLength
    THEN Respond(ErrorResp(400, "Resume text exceeds maximum length",
                           "VALIDATION_ERROR"))
    ELSE Fetch([url |-> "chat", key |-> key,
                model |-> OrElse(body.model, DefaultModel),
                temperature |-> ParseTemperature,
                max_tokens |-> ParseMaxTokens,
                messages |-> Messages("prompt", <<>>),
                clip |-> IF body.text.n < PromptTextLength
                         THEN body.text.n ELSE PromptTextLength])

\* parse-resume of part_000 and of src/api/parse-resume.js: the key check first
KeyedParseResume(key, body) ==
    IF ~Truthy(key)
    THEN KeyMissing("API_KEY_MISSING", "API key not configured on server")
    ELSE ParseResume(key, body)

\* fetch(`${OPENROUTER_BASE_URL}/models`, ...)
Models(key) == Fetch([NoSent EXCEPT !.url = "models", !.key = key])

KeyedModels(key) ==
    IF ~Truthy(key)
    THEN KeyMissing("API_KEY_MISSING", "API key not configured on server")
    ELSE Models(key)

\* apiConfigured: !!key in src/server.js and in the first handler of
\* src/api/health.js, !!key && key.length > 10 in the others
LooseHealth(key) == Respond(HealthResp(Truthy(key)))

StrictHealth(key) == Respond(HealthResp(Truthy(key) /\ key.n > MinKeyLength))

(***************************************************************************)
(* Routing.  A request is [method, path, body]; body.k = "malformed" is a  *)
(* body express.json() cannot decode.                                      *)
(***************************************************************************)
Request(method, path, body) == [method |-> method, path |-> path, body |-> body]

Variants == {"server", "index", "api", "alt"}

ExpressVariants == {"server", "index"}

ApiPaths == {"/api/health", "/api/models", "/api/chat", "/api/parse-resume"}

\* the paths a deployment answers with this code: an Express app answers
\* every path, a serverless function only its own
Served(variant, path) ==
    CASE variant \in ExpressVariants -> TRUE
      [] variant = "api" -> path \in ApiPaths
      [] OTHER -> path \in {"/api/chat", "/api/health"}

\* app.use((req, res) => res.status(404).json(...))
NotFound == Respond(ErrorResp(404, "Endpoint not found", "NOT_FOUND"))

\* the global error handler of the Express apps
ServerError == ErrorResp(500, "Internal server error", "SERVER_ERROR")

\* the routes of src/server.js
ServerRoute(key, q) ==
    CASE q.method = "GET" /\ q.path = "/api/health" -> LooseHealth(key)
      [] q.method = "GET" /\ q.path = "/api/models" -> Models(key)
      [] q.method = "POST" /\ q.path = "/api/chat" -> ServerChat(key, q.body)
      [] q.method = "POST" /\ q.path = "/api/parse-resume" -> ParseResume(key, q.body)
      [] OTHER -> NotFound

\* the routes of part_000
IndexRoute(key, q) ==
    CASE q.method = "GET" /\ q.path = "/api/health" -> StrictHealth(key)
      [] q.method = "GET" /\ q.path = "/api/models" -> KeyedModels(key)
      [] q.method = "POST" /\ q.path = "/api/chat" -> IndexChat(key, q.body)
      [] q.method = "POST" /\ q.path = "/api/parse-resume" ->
            KeyedParseResume(key, q.body)
      [] OTHER -> NotFound

\* the CORS headers and the two method checks that open every handler of src/api
MethodChecked(q, method, rest) ==
    IF q.method = "OPTIONS" THEN Respond(EndResp(200))
    ELSE IF q.method # method THEN Respond(MethodNotAllowed)
    ELSE rest

\* the handlers of src/api, one file per path
ApiRoute(key, q) ==
    CASE q.path = "/api/health" -> MethodChecked(q, "GET", StrictHealth(key))
      [] q.path = "/api/models" -> MethodChecked(q, "GET", KeyedModels(key))
      [] q.path = "/api/chat" -> MethodChecked(q, "POST", ApiChat(key, q.body))
      [] OTHER -> MethodChecked(q, "POST", KeyedParseResume(key, q.body))

\* part_001's chat handler and the first handler of src/api/health.js
AltRoute(key, q) ==
    IF q.path = "/api/health" THEN LooseHealth(key)
    ELSE IF q.method # "POST" THEN Respond(MethodNotAllowed)
    ELSE AltChat(key, q.body)

\* the handler a deployment runs for a request
Route(variant, key, q) ==
    CASE variant = "server" -> ServerRoute(key, q)
      [] variant = "index" -> IndexRoute(key, q)
      [] variant = "api" -> ApiRoute(key, q)
      [] OTHER -> AltRoute(key, q)

(***************************************************************************)
(* The rate limiter of the Express apps: rateLimit({ windowMs, max,        *)
(* message }) mounted on '/api/'.  Its store keeps, per client IP, the     *)
(* hits of the current window and the time left until the window's reset   *)
(* time (ttl = 0: no window is open).                                      *)
(***************************************************************************)
\* a window of ten minutes
windowMsTen == 10 * 60 * 1000

windowMs == 15 * 60 * 1000

\* a limit of one request more
maxOneMore == 100 + 1

max == 100

retryAfter == 15

\* the message option: the body of a rejection
LimitMessage ==
    [NoResp EXCEPT !.status = 429, !.json = TRUE,
        !.error = "Too many requests from this IP, please try again after 15 minutes",
        !.retryAfter = retryAfter]

NoWindow == [totalHits |-> 0, ttl |-> 0]

\* the store's increment: a hit after the reset time opens a new window
Increment(entry) ==
    IF entry.ttl = 0 THEN [totalHits |-> 1, ttl |-> windowMs]
    ELSE [entry EXCEPT !.totalHits = @ + 1]

\* the limiter's decision on the incremented entry
Exceeded(entry) == entry.totalHits > max

\* a limiter that keeps one counter for all clients
KeyOfAnyClient(ip) == "A"

\* the key of a request's counter: its client IP
KeyOf(ip) == ip

\* app.use('/api/', limiter): the paths the limiter sees
UnderApiPrefix(path) == path \in ApiPaths \cup {"/api/other"}

\* the deployments that mount the limiter
Limited(variant, path) == variant \in ExpressVariants /\ UnderApiPrefix(path)

\* the time the clock advances in one step, and the store after it
Elapse(entry, dt) == [entry EXCEPT !.ttl = IF @ > dt THEN @ - dt ELSE 0]

(***************************************************************************)
(* Reshaping the upstream reply.  Model output is a sequence of tokens:    *)
(* "{", "}", ",", "k" (a key with its colon), "1" (a scalar) and "x" (any  *)
(* other text).  Strings that are sorted are named by their rank in the    *)
(* collation order.                                                        *)
(***************************************************************************)
ModelPageSize == 50

RECURSIVE FirstIndex(_, _, _)
FirstIndex(text, c, i) ==
    IF i > Len(text) THEN 0
    ELSE IF text[i] = c THEN i ELSE FirstIndex(text, c, i + 1)

RECURSIVE LastIndex(_, _, _)
LastIndex(text, c, i) ==
    IF i < 1 THEN 0
    ELSE IF text[i] = c THEN i ELSE LastIndex(text, c, i - 1)

\* content.match(/\{[\s\S]*?\}/): from the first { to the first } after it
JsonMatchLazy(text) ==
    LET open == FirstIndex(text, "{", 1)
        close == IF open = 0 THEN 0 ELSE FirstIndex(text, "}", open + 1)
    IN IF open > 0 /\ close > open
       THEN [found |-> TRUE, span |-> SubSeq(text, open, close)]
       ELSE [found |-> FALSE, span |-> <<>>]

\* content.match(/\{[\s\S]*\}/): the match, or found = FALSE for null
JsonMatch(text) ==
    LET open == FirstIndex(text, "{", 1)
        close == LastIndex(text, "}", Len(text))
    IN IF open > 0 /\ close > open
       THEN [found |-> TRUE, span |-> SubSeq(text, open, close)]
       ELSE [found |-> FALSE, span |-> <<>>]

JScalar == [j |-> "scalar", members |-> <<>>]

\* an object: no member, or the value of its key (a repeated key keeps the last)
JObject(members) == [j |-> "object", members |-> members]

ParseFail == [ok |-> FALSE, val |-> JScalar, next |-> 0]

RECURSIVE ParseValue(_, _)
RECURSIVE ParseMembers(_, _)
ParseValue(toks, i) ==
    IF i > Len(toks) THEN ParseFail
    ELSE IF toks[i] = "1" THEN [ok |-> TRUE, val |-> JScalar, next |-> i + 1]
    ELSE IF toks[i] = "{"
    THEN IF i + 1 <= Len(toks) /\ toks[i + 1] = "}"
         THEN [ok |-> TRUE, val |-> JObject(<<>>), next |-> i + 2]
         ELSE ParseMembers(toks, i + 1)
    ELSE ParseFail

ParseMembers(toks, i) ==
    IF i > Len(toks) \/ toks[i] # "k" THEN ParseFail
    ELSE LET v == ParseValue(toks, i + 1)
         IN IF ~v.ok \/ v.next > Len(toks) THEN ParseFail
            ELSE IF toks[v.next] = "," THEN ParseMembers(toks, v.next + 1)
            ELSE IF toks[v.next] = "}"
            THEN [ok |-> TRUE, val |-> JObject(<<v.val>>), next |-> v.next + 1]
            ELSE ParseFail

\* JSON.parse(text): ok = FALSE when it throws a SyntaxError
JSONparse(toks) ==
    LET r == ParseValue(toks, 1)
    IN IF r.ok /\ r.next = Len(toks) + 1 THEN r ELSE ParseFail

\* an upstream model: id and name by rank (name 0: absent), tagged when the
\* id contains ':free', and whether each price is the string "0"
UpstreamModel(id, tagged, name, promptZero, completionZero) ==
    [id |-> id, tagged |-> tagged, name |-> name,
     promptZero |-> promptZero, completionZero |-> completionZero]

\* free as soon as one of the two prices is "0"
IsFreeEitherPrice(m) == m.tagged \/ m.promptZero \/ m.completionZero

IsFree(m) == m.tagged \/ (m.promptZero /\ m.completionZero)

\* m.name || m.id
DisplayName(m) == IF m.name # 0 THEN m.name ELSE m.id

\* the comparator handed to models.sort
Compare(a, b) ==
    IF IsFree(a) /\ ~IsFree(b) THEN -1
    ELSE IF ~IsFree(a) /\ IsFree(b) THEN 1
    ELSE IF DisplayName(a) < DisplayName(b) THEN -1
    ELSE IF DisplayName(a) > DisplayName(b) THEN 1
    ELSE 0

\* Array.prototype.sort is stable: an element goes after its equals
RECURSIVE InsertSorted(_, _)
InsertSorted(sorted, m) ==
    IF sorted = <<>> THEN <<m>>
    ELSE IF Compare(m, Head(sorted)) < 0 THEN <<m>> \o sorted
    ELSE <<Head(sorted)>> \o InsertSorted(Tail(sorted), m)

RECURSIVE SortModels(_, _)
SortModels(models, sorted) ==
    IF models = <<>> THEN sorted
    ELSE SortModels(Tail(models), InsertSorted(sorted, Head(models)))

\* models.slice(0, 50).sort(...).map(...): the page cut before the sort
ProcessedModelsOfFirstPage(models) ==
    LET first == SubSeq(models, 1,
                        IF Len(models) < ModelPageSize THEN Len(models)
                        ELSE ModelPageSize)
        page == SortModels(first, <<>>)
    IN [i \in 1..Len(page) |->
           [id |-> page[i].id, name |-> DisplayName(page[i]),
            isFree |-> IsFree(page[i])]]

\* sortedModels.slice(0, 50).map(...)
ProcessedModels(models) ==
    LET sorted == SortModels(models, <<>>)
        page == SubSeq(sorted, 1,
                       IF Len(sorted) < ModelPageSize THEN Len(sorted)
                       ELSE ModelPageSize)
    IN [i \in 1..Len(page) |->
           [id |-> page[i].id, name |-> DisplayName(page[i]),
            isFree |-> IsFree(page[i])]]

(***************************************************************************)
(* The upstream reply and what a handler makes of it after its awaits.     *)
(***************************************************************************)
\* transport: fetch rejects; decodable: response.json() resolves; nullBody:
\* it resolves to null; text: the tokens of a string content
Reply(transport, status, decodable, nullBody, errMessage, content, text, usage, models) ==
    [transport |-> transport, status |-> status, decodable |-> decodable,
     nullBody |-> nullBody, errMessage |-> errMessage, content |-> content,
     text |-> text, usage |-> usage, models |-> models]

NoReply == Reply(FALSE, 0, FALSE, FALSE, Undef, Undef, <<>>, Undef, <<>>)

\* response.ok
Ok(status) == status >= 200 /\ status <= 299

\* the catch block of each handler
CatchResp(path) ==
    CASE path = "/api/models" ->
            ErrorResp(500, "Failed to connect to OpenRouter API", "CONNECTION_ERROR")
      [] path = "/api/chat" ->
            ErrorResp(500, "Failed to process AI request", "SERVER_ERROR")
      [] OTHER -> ErrorResp(500, "Failed to parse resume", "SERVER_ERROR")

\* the message used when the upstream error carries none
Fallback(path) ==
    CASE path = "/api/models" -> Str("Failed to fetch models", 22)
      [] path = "/api/chat" -> Str("AI request failed", 17)
      [] OTHER -> Str("AI parsing failed", 17)

\* an upstream error reported as a bad gateway, whatever its status
UpstreamErrorAsBadGateway(path, reply) ==
    ErrorResp(502, OrElse(reply.errMessage, Fallback(path)).s, "OPENROUTER_ERROR")

\* if (!response.ok) { ... }
UpstreamError(path, reply) ==
    ErrorResp(reply.status, OrElse(reply.errMessage, Fallback(path)).s,
              "OPENROUTER_ERROR")

ModelsSuccess(reply) ==
    [NoResp EXCEPT !.status = 200, !.json = TRUE, !.success = TRUE,
        !.models = ProcessedModels(reply.models),
        !.totalCount = Len(reply.models)]

\* a success that names the default model, whatever was sent
ChatSuccessDefaultModel(sent, reply) ==
    [NoResp EXCEPT !.status = 200, !.json = TRUE, !.success = TRUE,
        !.content = OrElse(reply.content, Str("", 0)),
        !.model = DefaultModel, !.usage = reply.usage]

ChatSuccess(sent, reply) ==
    [NoResp EXCEPT !.status = 200, !.json = TRUE, !.success = TRUE,
        !.content = OrElse(reply.content, Str("", 0)),
        !.model = sent.model, !.usage = reply.usage]

\* an extraction that reports the span it tried in place of the content
ParseSuccessRawSpan(reply) ==
    LET content == OrElse(reply.content, Str("", 0))
        text == IF Truthy(reply.content) THEN reply.text ELSE <<>>
        jsonMatch == JsonMatch(text)
        parsed == JSONparse(jsonMatch.span)
    IN IF content.t # "string" THEN CatchResp("/api/parse-resume")
       ELSE IF jsonMatch.found /\ parsed.ok
       THEN [NoResp EXCEPT !.status = 200, !.json = TRUE, !.success = TRUE,
                !.data = <<parsed.val>>, !.method = "ai"]
       ELSE IF jsonMatch.found
       THEN [ErrorResp(422, "Failed to parse AI response as JSON", "PARSE_ERROR")
                EXCEPT !.rawContent = <<jsonMatch.span>>]
       ELSE [ErrorResp(422, "AI response did not contain valid JSON", "PARSE_ERROR")
                EXCEPT !.rawContent = <<text>>]

\* the extraction of parse-resume; content.match throws when content is no string
ParseSuccess(reply) ==
    LET content == OrElse(reply.content, Str("", 0))
        text == IF Truthy(reply.content) THEN reply.text ELSE <<>>
        jsonMatch == JsonMatch(text)
        parsed == JSONparse(jsonMatch.span)
    IN IF content.t # "string" THEN CatchResp("/api/parse-resume")
       ELSE IF jsonMatch.found /\ parsed.ok
       THEN [NoResp EXCEPT !.status = 200, !.json = TRUE, !.success = TRUE,
                !.data = <<parsed.val>>, !.method = "ai"]
       ELSE IF jsonMatch.found
       THEN [ErrorResp(422, "Failed to parse AI response as JSON", "PARSE_ERROR")
                EXCEPT !.rawContent = <<text>>]
       ELSE [ErrorResp(422, "AI response did not contain valid JSON", "PARSE_ERROR")
                EXCEPT !.rawContent = <<text>>]

\* the response once response.json() has settled
\* a handler that names the credential it used when the upstream refuses
DecodedNamingKey(path, sent, reply) ==
    IF ~reply.decodable \/ reply.nullBody THEN CatchResp(path)
    ELSE IF ~Ok(reply.status)
    THEN ErrorResp(reply.status, sent.key.s, "OPENROUTER_ERROR")
    ELSE CASE path = "/api/models" -> ModelsSuccess(reply)
           [] path = "/api/chat" -> ChatSuccess(sent, reply)
           [] OTHER -> ParseSuccess(reply)

Decoded(path, sent, reply) ==
    IF ~reply.decodable \/ reply.nullBody THEN CatchResp(path)
    ELSE IF ~Ok(reply.status) THEN UpstreamError(path, reply)
    ELSE CASE path = "/api/models" -> ModelsSuccess(reply)
           [] path = "/api/chat" -> ChatSuccess(sent, reply)
           [] OTHER -> ParseSuccess(reply)

(***************************************************************************)
(* State.                                                                  *)
(***************************************************************************)
VARIABLES
    variant,    \* the deployment: which of the four sources serves
    apiKey,     \* process.env.OPENROUTER_API_KEY
    store,      \* the rate limiter's store: client key -> [totalHits, ttl]
    observed,   \* per client IP, the requests of its current 15-minute window
    reqs,       \* the requests in flight or last answered, by connection
    vBody,      \* the argument of a call of validateChatRequest
    vResult     \* what the call returned

vars == <<variant, apiKey, store, observed, reqs, vBody, vResult>>

IPs == {"A", "B"}

\* the window of the claims about the rate limit, in ms, and its quota
WindowLength == 900000

Quota == 100

\* all: the requests to the API prefix in the window; counted: those that
\* are neither a CORS preflight nor undecodable; admitted: the counted ones
\* that were not rejected; left: the time left of the window (0: none is
\* open); refused: a counted request of the client's last window was rejected
NoneObserved ==
    [all |-> 0, counted |-> 0, admitted |-> 0, left |-> 0, refused |-> FALSE]

\* a connection and the request on it; of the request's place in its
\* client's window: first (it is the first counted one), past (at least
\* Quota requests came before it), over (at least Quota counted ones did)
FreeSlot ==
    [pc |-> "free", ip |-> "", q |-> Request("", "", NoBody), sent |-> NoSent,
     calls |-> 0, reply |-> NoReply, resp |-> NoResp, limited |-> FALSE,
     writes |-> 0, first |-> FALSE, past |-> FALSE, over |-> FALSE]

\* a process that serves whether or not it has a key
ListeningWithoutKey == TRUE

\* the process of src/server.js exits at start-up without a key
Listening == variant = "server" => Truthy(apiKey)

(***************************************************************************)
(* The middleware of the Express apps ahead of the routes, in the order it *)
(* is mounted: cors answers a preflight, express.json hands an undecodable *)
(* body to the error handler, the limiter counts and rejects.              *)
(***************************************************************************)
Preflight(q) == q.method = "OPTIONS"

Undecodable(q) == q.body.k = "malformed"

\* a read and an increment in separate turns: the increment of a request
\* that arrives while another of its client is in flight is overwritten
HitRacy(ip) ==
    IF \E r \in DOMAIN reqs :
          reqs[r].ip = ip /\ reqs[r].pc \in {"fetching", "decoding"}
    THEN store[KeyOf(ip)]
    ELSE Increment(store[KeyOf(ip)])

\* the limiter's read and increment of a client's entry, in one turn of the
\* event loop
Hit(ip) == Increment(store[KeyOf(ip)])

\* a limiter that sets the status of a request over the limit and calls
\* next() all the same
ExpressCallsNext(key, ip, q) ==
    IF Preflight(q)
    THEN [entry |-> store[KeyOf(ip)], limited |-> FALSE,
          out |-> Respond(EndResp(204))]
    ELSE IF Undecodable(q)
    THEN [entry |-> store[KeyOf(ip)], limited |-> FALSE,
          out |-> Respond(ServerError)]
    ELSE IF Limited(variant, q.path)
    THEN [entry |-> Hit(ip), limited |-> Exceeded(Hit(ip)),
          out |-> Route(variant, key, q)]
    ELSE [entry |-> store[KeyOf(ip)], limited |-> FALSE,
          out |-> Route(variant, key, q)]

\* [entry: the client's entry after the request, limited, out: the outcome]
Express(key, ip, q) ==
    LET entry == store[KeyOf(ip)]
    IN IF Preflight(q)
       THEN [entry |-> entry, limited |-> FALSE, out |-> Respond(EndResp(204))]
       ELSE IF Undecodable(q)
       THEN [entry |-> entry, limited |-> FALSE, out |-> Respond(ServerError)]
       ELSE IF Limited(variant, q.path)
       THEN IF Exceeded(Hit(ip))
            THEN [entry |-> Hit(ip), limited |-> TRUE, out |-> Respond(LimitMessage)]
            ELSE [entry |-> Hit(ip), limited |-> FALSE,
                  out |-> Route(variant, key, q)]
       ELSE [entry |-> entry, limited |-> FALSE, out |-> Route(variant, key, q)]

\* a request from its arrival to its response or its first await
Arrive(key, ip, q) ==
    IF variant \in ExpressVariants THEN Express(key, ip, q)
    ELSE [entry |-> store[KeyOf(ip)], limited |-> FALSE,
          out |-> Route(variant, key, q)]

\* the requests the claims about the rate limit count: to the API prefix,
\* neither a CORS preflight nor undecodable
IsCounted(q) == UnderApiPrefix(q.path) /\ ~Preflight(q) /\ ~Undecodable(q)

\* the claims' count of a request in its client's window, which the first
\* counted request opens
Observe(o, q) ==
    LET open == IF o.left = 0 /\ IsCounted(q)
                THEN [o EXCEPT !.left = WindowLength] ELSE o
    IN IF ~UnderApiPrefix(q.path) \/ open.left = 0 THEN open
       ELSE [open EXCEPT !.all = @ + 1,
                         !.counted = IF IsCounted(q) THEN @ + 1 ELSE @]

\* what becomes of a handler that throws outside its try block: an Express
\* app leaves the request unanswered or hands the error to its error
\* handler, by the version of Express; the serverless platform answers 500
ThrowOutcomes ==
    IF variant \in ExpressVariants
    THEN {[pc |-> "unanswered", resp |-> NoResp, writes |-> 0],
          [pc |-> "done", resp |-> ServerError, writes |-> 1]}
    ELSE {[pc |-> "done", resp |-> PlatformCrash, writes |-> 0]}

Receive(r, ip, q) ==
    /\ Listening
    /\ reqs[r].pc \in {"free", "done", "unanswered"}
    /\ Served(variant, q.path)
    /\ Undecodable(q) => variant \in ExpressVariants
    /\ LET a == Arrive(apiKey, ip, q)
           o == Observe(observed[ip], q)
           slot == [FreeSlot EXCEPT !.ip = ip, !.q = q, !.limited = a.limited,
                       !.first = IsCounted(q) /\ o.counted = 1,
                       !.past = UnderApiPrefix(q.path) /\ o.all > Quota,
                       !.over = IsCounted(q) /\ o.counted > Quota]
       IN /\ store' = [store EXCEPT ![KeyOf(ip)] = a.entry]
          /\ observed' = [observed EXCEPT ![ip] =
                 [o EXCEPT !.admitted = IF IsCounted(q) /\ ~a.limited THEN @ + 1 ELSE @]]
          /\ CASE a.out.act = "respond" ->
                    reqs' = [reqs EXCEPT ![r] =
                        [slot EXCEPT !.pc = "done", !.resp = a.out.resp, !.writes = 1]]
               [] a.out.act = "fetch" ->
                    reqs' = [reqs EXCEPT ![r] =
                        [slot EXCEPT !.pc = "fetching", !.sent = a.out.sent, !.calls = 1]]
               [] OTHER ->
                    \E t \in ThrowOutcomes :
                        reqs' = [reqs EXCEPT ![r] =
                            [slot EXCEPT !.pc = t.pc, !.resp = t.resp,
                                         !.writes = t.writes]]
    /\ UNCHANGED <<variant, apiKey, vBody, vResult>>

\* a handler that calls the upstream a second time when fetch rejects
FetchSettlesRetrying(r, reply) ==
    /\ reqs[r].pc = "fetching"
    /\ reqs' = [reqs EXCEPT ![r] =
          IF reply.transport /\ reqs[r].calls < 2
          THEN [@ EXCEPT !.calls = @ + 1]
          ELSE IF reply.transport
          THEN [@ EXCEPT !.pc = "done", !.reply = reply,
                         !.resp = CatchResp(reqs[r].q.path), !.writes = @ + 1]
          ELSE [@ EXCEPT !.pc = "decoding", !.reply = reply]]
    /\ UNCHANGED <<variant, apiKey, store, observed, vBody, vResult>>

\* the await of fetch settles: a rejection goes to the catch block
FetchSettles(r, reply) ==
    /\ reqs[r].pc = "fetching"
    /\ reqs' = [reqs EXCEPT ![r] =
          IF reply.transport
          THEN [@ EXCEPT !.pc = "done", !.reply = reply,
                         !.resp = CatchResp(reqs[r].q.path), !.writes = @ + 1]
          ELSE [@ EXCEPT !.pc = "decoding", !.reply = reply]]
    /\ UNCHANGED <<variant, apiKey, store, observed, vBody, vResult>>

\* the await of response.json() settles
\* a handler that keeps the selected model in a variable of the module, which
\* the latest request in flight has overwritten
JsonSettlesSharedModel(r) ==
    /\ reqs[r].pc = "decoding"
    /\ LET inFlight == {s \in DOMAIN reqs : reqs[s].pc \in {"fetching", "decoding"}}
           last == CHOOSE s \in inFlight : \A t \in inFlight : t <= s
       IN reqs' = [reqs EXCEPT ![r] =
             [@ EXCEPT !.pc = "done",
                       !.resp = Decoded(reqs[r].q.path, reqs[last].sent, reqs[r].reply),
                       !.writes = @ + 1]]
    /\ UNCHANGED <<variant, apiKey, store, observed, vBody, vResult>>

JsonSettles(r) ==
    /\ reqs[r].pc = "decoding"
    /\ reqs' = [reqs EXCEPT ![r] =
          [@ EXCEPT !.pc = "done",
                    !.resp = Decoded(reqs[r].q.path, reqs[r].sent, reqs[r].reply),
                    !.writes = @ + 1]]
    /\ UNCHANGED <<variant, apiKey, store, observed, vBody, vResult>>

\* time passes
Tick(dt) ==
    /\ store' = [k \in DOMAIN store |-> Elapse(store[k], dt)]
    /\ observed' = [ip \in IPs |->
          IF observed[ip].left > dt
          THEN [observed[ip] EXCEPT !.left = @ - dt]
          ELSE IF observed[ip].left = 0 THEN observed[ip]
          ELSE [NoneObserved EXCEPT
                   !.refused = observed[ip].admitted < observed[ip].counted]]
    /\ UNCHANGED <<variant, apiKey, reqs, vBody, vResult>>

(***************************************************************************)
(* Inputs.                                                                 *)
(***************************************************************************)
MaxInFlight == 2

MaxMsgs == 2

MaxPipelineMsgs == 1

MaxOver == 2

MaxBypass == 1

TicksPerWindow == 2

MaxOutputLen == 4

MaxModels == 3

MaxBeyondPage == 1

Slots == 1..MaxInFlight

Keys == {Undef, Str("sk-short", 8), Str("sk-or-v1-key", 40)}

SeqsUpTo(S, n) == UNION {[1..k -> S] : k \in 0..n}

Roles == {Undef, Str("user", 4), Str("bogus", 5)}

Contents ==
    {Undef, Num(5, 0), Str("text", 0), Str("text", 1),
     Str("text", MaxContentLength), Str("text", MaxContentLength + 1)}

ModelValues == {Undef, Str("some/model", 10), Num(0, 0), Num(7, 0)}

Temperatures ==
    {Undef, Str("1", 1), Num(-1, 9), Num(0, 0), Num(2, 0), Num(2, 1)}

TokenCounts ==
    {Undef, Null, Num(0, 0), Num(1, 0), Num(1, 5), Num(4000, 0), Num(4001, 0)}

MessageLists(elements, n) ==
    {Messages("undefined", <<>>), Messages("string", <<>>)}
    \cup {Messages("array", items) : items \in SeqsUpTo(elements, n)}

\* the bodies validateChatRequest is called with
ValidatorBodies ==
    {NoBody} \cup
    {Body(m, model, t, k, Undef) :
        m \in MessageLists({NullMsg} \cup {Msg(r, c) : r \in Roles, c \in Contents},
                           MaxMsgs),
        model \in ModelValues, t \in Temperatures, k \in TokenCounts}

EmptyBody == Body(Messages("undefined", <<>>), Undef, Undef, Undef, Undef)

MalformedBody == [EmptyBody EXCEPT !.k = "malformed"]

ValidMsg == Msg(Str("user", 4), Str("text", 1))

\* the chat bodies sent through the handlers
ChatBodies ==
    {NoBody} \cup
    {Body(m, model, t, k, Undef) :
        m \in MessageLists({NullMsg, ValidMsg, Msg(Str("bogus", 5), Str("text", 0)),
                            Msg(Str("user", 4), Str("text", MaxContentLength + 1))},
                           MaxPipelineMsgs),
        model \in {Undef, Str("some/model", 10), Num(0, 0), Num(7, 0)},
        t \in {Undef, Num(2, 0), Num(2, 1)},
        k \in {Undef, Num(4001, 0)}}

ParseBodies ==
    {NoBody} \cup
    {Body(Messages("undefined", <<>>), model, Undef, Undef, text) :
        model \in {Undef, Str("some/model", 10)},
        text \in {Undef, Num(5, 0), Str("resume", 0), Str("resume", 1),
                  Str("resume", MaxResumeLength),
                  Str("resume", MaxResumeLength + 1)}}

Paths == ApiPaths \cup {"/api/other", "/"}

\* the requests sent through the handlers
Requests ==
    {Request(m, p, EmptyBody) : m \in {"GET", "OPTIONS"}, p \in Paths}
    \cup {Request("POST", p, b) :
             p \in Paths \ {"/api/chat", "/api/parse-resume"},
             b \in {EmptyBody, MalformedBody}}
    \cup {Request("POST", "/api/chat", b) : b \in ChatBodies \cup {MalformedBody}}
    \cup {Request("POST", "/api/parse-resume", b) : b \in ParseBodies}

Usage == [t |-> "object", s |-> "usage", n |-> 0, f |-> 0]

\* the upstream's replies
Replies ==
    {Reply(TRUE, 0, FALSE, FALSE, Undef, Undef, <<>>, Undef, <<>>)}
    \cup {Reply(FALSE, st, FALSE, FALSE, Undef, Undef, <<>>, Undef, <<>>) :
             st \in {200, 502}}
    \cup {Reply(FALSE, st, TRUE, TRUE, Undef, Undef, <<>>, Undef, <<>>) :
             st \in {200, 502}}
    \cup {Reply(FALSE, st, TRUE, FALSE, m, Undef, <<>>, Undef, <<>>) :
             st \in {401, 429}, m \in {Undef, Str("upstream says no", 16)}}
    \cup {Reply(FALSE, 200, TRUE, FALSE, Undef, Undef, <<>>, u, <<>>) :
             u \in {Undef, Usage}}
    \cup {Reply(FALSE, 200, TRUE, FALSE, Undef, Str("out", Len(text)), text, Usage, <<>>) :
             text \in {<<"x">>, <<"{", "x", "}">>, <<"x", "{", "k", "1", "}", "x">>}}
    \cup {Reply(FALSE, 200, TRUE, FALSE, Undef, Undef, <<>>, Undef, models) :
             models \in {<<UpstreamModel(2, TRUE, 0, FALSE, FALSE),
                           UpstreamModel(1, FALSE, 0, FALSE, FALSE),
                           UpstreamModel(3, FALSE, 4, TRUE, TRUE)>>}}

(***************************************************************************)
(* The handlers under every request and reply: one request, any deployment. *)
(***************************************************************************)
Init ==
    /\ variant \in Variants
    /\ apiKey \in Keys
    /\ store = [k \in {KeyOf(ip) : ip \in IPs} |-> NoWindow]
    /\ observed = [ip \in IPs |-> NoneObserved]
    /\ reqs = [r \in Slots |-> FreeSlot]
    /\ vBody = NoBody
    /\ vResult = [called |-> FALSE, threw |-> FALSE, errors |-> <<>>]

Next ==
    \/ \E q \in Requests :
          /\ reqs[1].pc = "free"
          /\ Receive(1, "A", q)
    \/ \E reply \in Replies : FetchSettles(1, reply)
    \/ JsonSettles(1)

Spec == Init /\ [][Next]_vars

(***************************************************************************)
(* validateChatRequest alone, called with every body.                      *)
(***************************************************************************)
InitV ==
    /\ variant = "server"
    /\ apiKey = Str("sk-or-v1-key", 40)
    /\ store = [k \in {KeyOf(ip) : ip \in IPs} |-> NoWindow]
    /\ observed = [ip \in IPs |-> NoneObserved]
    /\ reqs = [r \in Slots |-> FreeSlot]
    /\ vBody \in ValidatorBodies
    /\ vResult = [called |-> FALSE, threw |-> FALSE, errors |-> <<>>]

Validate ==
    /\ ~vResult.called
    /\ vResult' = [called |-> TRUE, threw |-> validateChatRequest(vBody).threw,
                   errors |-> validateChatRequest(vBody).errors]
    /\ UNCHANGED <<variant, apiKey, store, observed, reqs, vBody>>

NextV == Validate

SpecV == InitV /\ [][NextV]_vars

(***************************************************************************)
(* One client over time: more requests than the limit allows, one at a     *)
(* time, while its window runs and ends.                                   *)
(***************************************************************************)
LongKey == Str("sk-or-v1-key", 40)

OkReply == Reply(FALSE, 200, TRUE, FALSE, Undef, Str("out", 1), <<"x">>, Usage, <<>>)

ValidChat == Body(Messages("array", <<ValidMsg>>), Undef, Undef, Undef, Undef)

ValidResume ==
    Body(Messages("undefined", <<>>), Undef, Undef, Undef, Str("resume", 1))

RequestsRL ==
    {Request("GET", "/api/health", EmptyBody),
     Request("GET", "/api/models", EmptyBody),
     Request("POST", "/api/chat", ValidChat),
     Request("POST", "/api/parse-resume", ValidResume),
     Request("OPTIONS", "/api/chat", EmptyBody),
     Request("POST", "/api/chat", MalformedBody)}

\* the bound on the requests of one window
Bounded(ip, q) ==
    IF IsCounted(q) THEN observed[ip].counted < Quota + MaxOver
    ELSE observed[ip].all - observed[ip].counted < MaxBypass

InitRL ==
    /\ variant \in Variants
    /\ apiKey = LongKey
    /\ store = [k \in {KeyOf(ip) : ip \in IPs} |-> NoWindow]
    /\ observed = [ip \in IPs |-> NoneObserved]
    /\ reqs = [r \in Slots |-> FreeSlot]
    /\ vBody = NoBody
    /\ vResult = [called |-> FALSE, threw |-> FALSE, errors |-> <<>>]

NextRL ==
    \/ \E q \in RequestsRL :
          /\ Bounded("A", q)
          /\ Receive(1, "A", q)
    \/ FetchSettles(1, OkReply)
    \/ JsonSettles(1)
    \/ Tick(windowMs \div TicksPerWindow)

SpecRL == InitRL /\ [][NextRL]_vars

(***************************************************************************)
(* Requests of several clients, one after another and in flight together.  *)
(***************************************************************************)
MaxHistory == 3

ChatWithModel ==
    Body(Messages("array", <<ValidMsg>>), Str("some/model", 10), Undef, Undef, Undef)

RequestsFE ==
    {Request("GET", "/api/health", EmptyBody),
     Request("POST", "/api/chat", ValidChat),
     Request("POST", "/api/chat", ChatWithModel)}

RepliesFE ==
    {OkReply,
     Reply(FALSE, 401, TRUE, FALSE, Str("upstream says no", 16), Undef, <<>>, Undef, <<>>)}

InitFE ==
    /\ variant \in ExpressVariants
    /\ apiKey = LongKey
    /\ store = [k \in {KeyOf(ip) : ip \in IPs} |-> NoWindow]
    /\ observed = [ip \in IPs |-> NoneObserved]
    /\ reqs = [r \in Slots |-> FreeSlot]
    /\ vBody = NoBody
    /\ vResult = [called |-> FALSE, threw |-> FALSE, errors |-> <<>>]

NextFE ==
    \/ \E r \in Slots, ip \in IPs, q \in RequestsFE :
          /\ observed["A"].all + observed["B"].all < MaxHistory
          /\ Receive(r, ip, q)
    \/ \E r \in Slots, reply \in RepliesFE : FetchSettles(r, reply)
    \/ \E r \in Slots : JsonSettles(r)

SpecFE == InitFE /\ [][NextFE]_vars

(***************************************************************************)
(* Two clients under the limiter: one goes over the limit, the other sends *)
(* a few requests.                                                         *)
(***************************************************************************)
MaxOther == 2

InitIP ==
    /\ variant \in ExpressVariants
    /\ apiKey = LongKey
    /\ store = [k \in {KeyOf(ip) : ip \in IPs} |-> NoWindow]
    /\ observed = [ip \in IPs |-> NoneObserved]
    /\ reqs = [r \in Slots |-> FreeSlot]
    /\ vBody = NoBody
    /\ vResult = [called |-> FALSE, threw |-> FALSE, errors |-> <<>>]

NextIP ==
    \/ \E q \in {Request("GET", "/api/health", EmptyBody)} :
          /\ Bounded("A", q)
          /\ Receive(1, "A", q)
    \/ \E q \in {Request("GET", "/api/health", EmptyBody)} :
          /\ observed["B"].counted < MaxOther
          /\ Receive(1, "B", q)
    \/ Tick(windowMs \div TicksPerWindow)

SpecIP == InitIP /\ [][NextIP]_vars

(***************************************************************************)
(* One client's requests in flight together, within one window.            *)
(***************************************************************************)
RequestsCC ==
    {Request("GET", "/api/health", EmptyBody),
     Request("POST", "/api/chat", ValidChat)}

InitCC ==
    /\ variant \in ExpressVariants
    /\ apiKey = LongKey
    /\ store = [k \in {KeyOf(ip) : ip \in IPs} |-> NoWindow]
    /\ observed = [ip \in IPs |-> NoneObserved]
    /\ reqs = [r \in Slots |-> FreeSlot]
    /\ vBody = NoBody
    /\ vResult = [called |-> FALSE, threw |-> FALSE, errors |-> <<>>]

NextCC ==
    \/ \E r \in Slots, q \in RequestsCC :
          /\ Bounded("A", q)
          /\ Receive(r, "A", q)
    \/ \E r \in Slots : FetchSettles(r, OkReply)
    \/ \E r \in Slots : JsonSettles(r)

SpecCC == InitCC /\ [][NextCC]_vars

(***************************************************************************)
(* parse-resume under every short output of the model.                     *)
(***************************************************************************)
Tokens == {"{", "}", ",", "k", "1", "x"}

\* "Here you go:\n{\"name\":\"A\"}\nThanks"
ProseAroundObject == <<"x", "{", "k", "1", "}", "x">>

Outputs == SeqsUpTo(Tokens, MaxOutputLen) \cup {ProseAroundObject}

\* the replies with status 200: a content that is a string, one that is
\* absent, one that is a number
RepliesX ==
    {Reply(FALSE, 200, TRUE, FALSE, Undef, Str("out", Len(text)), text, Usage, <<>>) :
        text \in Outputs}
    \cup {Reply(FALSE, 200, TRUE, FALSE, Undef, c, <<>>, Usage, <<>>) :
              c \in {Undef, Null, Num(5, 0)}}

InitX ==
    /\ variant \in {"server", "index", "api"}
    /\ apiKey = LongKey
    /\ store = [k \in {KeyOf(ip) : ip \in IPs} |-> NoWindow]
    /\ observed = [ip \in IPs |-> NoneObserved]
    /\ reqs = [r \in Slots |-> FreeSlot]
    /\ vBody = NoBody
    /\ vResult = [called |-> FALSE, threw |-> FALSE, errors |-> <<>>]

NextX ==
    \/ /\ reqs[1].pc = "free"
       /\ Receive(1, "A", Request("POST", "/api/parse-resume", ValidResume))
    \/ \E reply \in RepliesX : FetchSettles(1, reply)
    \/ JsonSettles(1)

SpecX == InitX /\ [][NextX]_vars

(***************************************************************************)
(* GET /api/models under short lists of every kind of model and under      *)
(* lists longer than a page.                                               *)
(***************************************************************************)
\* {id: "a"}, {id: "b:free"}, {id: "c:free"}, one free by its prices whose
\* name is "b:free", one with a single price "0", one named ahead of all
ModelKinds ==
    {UpstreamModel(1, FALSE, 0, FALSE, FALSE),
     UpstreamModel(2, TRUE, 0, FALSE, FALSE),
     UpstreamModel(3, TRUE, 0, FALSE, FALSE),
     UpstreamModel(4, FALSE, 2, TRUE, TRUE),
     UpstreamModel(5, FALSE, 0, TRUE, FALSE),
     UpstreamModel(6, FALSE, 1, FALSE, TRUE)}

\* the lists of models with distinct ids
ShortLists ==
    {l \in SeqsUpTo(ModelKinds, MaxModels) :
        \A i, j \in 1..Len(l) : l[i].id = l[j].id => i = j}

\* n models that are not free, the later the id the earlier in the list
Fill(n) == [i \in 1..n |-> UpstreamModel(100 - i, FALSE, 0, FALSE, FALSE)]

LongLists ==
    {pre \o Fill(n) \o post :
        n \in (ModelPageSize - 1)..(ModelPageSize + MaxBeyondPage),
        pre \in {l \in ShortLists : Len(l) <= 1},
        post \in {l \in ShortLists :
                    Len(l) <= 1 /\ \A i \in 1..Len(l) : l[i].id \in {1, 2}}}

RepliesM ==
    {Reply(FALSE, 200, TRUE, FALSE, Undef, Undef, <<>>, Undef, models) :
        models \in ShortLists \cup
                   {l \in LongLists : \A i, j \in 1..Len(l) : l[i].id = l[j].id => i = j}}

InitM ==
    /\ variant \in {"server", "index", "api"}
    /\ apiKey = LongKey
    /\ store = [k \in {KeyOf(ip) : ip \in IPs} |-> NoWindow]
    /\ observed = [ip \in IPs |-> NoneObserved]
    /\ reqs = [r \in Slots |-> FreeSlot]
    /\ vBody = NoBody
    /\ vResult = [called |-> FALSE, threw |-> FALSE, errors |-> <<>>]

NextM ==
    \/ /\ reqs[1].pc = "free"
       /\ Receive(1, "A", Request("GET", "/api/models", EmptyBody))
    \/ \E reply \in RepliesM : FetchSettles(1, reply)
    \/ JsonSettles(1)

SpecM == InitM /\ [][NextM]_vars

(***************************************************************************)
(* Claims.                                                                 *)
(***************************************************************************)
\* what the chat validation rules ask of one element of messages
RuleRoleViolated(msg) ==
    ~(msg.k = "object" /\ msg.role.t = "string"
      /\ msg.role.s \in {"system", "user", "assistant"})

RuleContentViolated(msg) ==
    ~(msg.k = "object" /\ msg.content.t = "string" /\ msg.content.n > 0)

RuleLengthViolated(msg) ==
    msg.k = "object" /\ msg.content.t \in {"string", "array"}
    /\ msg.content.n > 50000

RECURSIVE RuleMessageViolations(_, _)
RuleMessageViolations(items, i) ==
    IF i > Len(items) THEN <<>>
    ELSE (IF RuleRoleViolated(items[i]) THEN <<Violation("role", i - 1)>> ELSE <<>>)
         \o (IF RuleContentViolated(items[i])
             THEN <<Violation("content", i - 1)>> ELSE <<>>)
         \o (IF RuleLengthViolated(items[i])
             THEN <<Violation("length", i - 1)>> ELSE <<>>)
         \o RuleMessageViolations(items, i + 1)

\* model, if present, must be a string; temperature, if present, a number in
\* [0, 2]; max_tokens, if present, an integer in [1, 4000]
RuleTrailingViolations(body) ==
    (IF body.model.t \notin {"undefined", "string"}
     THEN <<Violation("model", -1)>> ELSE <<>>)
    \o (IF body.temperature.t # "undefined"
           /\ ~(body.temperature.t = "number" /\ body.temperature.n >= 0
                /\ (body.temperature.n < 2
                    \/ (body.temperature.n = 2 /\ body.temperature.f = 0)))
        THEN <<Violation("temperature", -1)>> ELSE <<>>)
    \o (IF body.max_tokens.t # "undefined"
           /\ ~(body.max_tokens.t = "number" /\ body.max_tokens.f = 0
                /\ body.max_tokens.n >= 1 /\ body.max_tokens.n <= 4000)
        THEN <<Violation("max_tokens", -1)>> ELSE <<>>)

RuleViolations(body) ==
    RuleMessageViolations(body.messages.items, 1) \o RuleTrailingViolations(body)

\* the chat validation rules on any decoded body
RuleChatViolations(body) ==
    IF body.k # "object" THEN <<Violation("messagesArray", -1)>>
    ELSE IF body.messages.t # "array"
    THEN <<Violation("messagesArray", -1)>> \o RuleTrailingViolations(body)
    ELSE IF Len(body.messages.items) = 0
    THEN <<Violation("messagesEmpty", -1)>> \o RuleTrailingViolations(body)
    ELSE RuleViolations(body)

\* the parse-resume validation rule: text is a string of 1 to 100,000 characters
RuleResumeViolated(body) ==
    ~(body.k = "object" /\ body.text.t = "string" /\ body.text.n >= 1
      /\ body.text.n <= 100000)

NonEmptyArray(body) ==
    body.k = "object" /\ body.messages.t = "array" /\ Len(body.messages.items) > 0

\* C1: for any body whose messages is a non-empty array, validateChatRequest
\* returns, index by index in ascending order, the role, content and length
\* violations of each element, followed by the model, temperature and
\* max_tokens violations that apply
C1_EnumeratesEveryViolation ==
    (vResult.called /\ NonEmptyArray(vBody)) =>
        (~vResult.threw /\ vResult.errors = RuleViolations(vBody))

\* C1, its example: role "bogus" with content "" yields exactly two
\* violations, both naming index 0
C1_BogusEmptyExample ==
    (vResult.called
     /\ vBody = Body(Messages("array", <<Msg(Str("bogus", 5), Str("text", 0))>>),
                     Undef, Undef, Undef, Undef)) =>
        vResult.errors = <<Violation("role", 0), Violation("content", 0)>>

\* C1 where no element of messages is null and model is undefined or truthy
C1_EnumeratesOnObjects ==
    (vResult.called /\ NonEmptyArray(vBody)
     /\ (\A i \in 1..Len(vBody.messages.items) : vBody.messages.items[i].k = "object")
     /\ (vBody.model.t = "undefined" \/ Truthy(vBody.model))) =>
        (~vResult.threw /\ vResult.errors = RuleViolations(vBody))

InUse(r) == reqs[r].pc # "free"

Answered(r) == reqs[r].pc = "done"

Settled(r) == reqs[r].pc \in {"done", "unanswered"}

\* a POST with a decoded JSON object as its body, to the chat operation of a
\* deployment that has its key
ChatPost(r) ==
    /\ InUse(r) /\ Truthy(apiKey)
    /\ reqs[r].q.method = "POST" /\ reqs[r].q.path = "/api/chat"
    /\ ~Undecodable(reqs[r].q) /\ reqs[r].q.body.k = "object"

ResumePost(r) ==
    /\ InUse(r) /\ Truthy(apiKey)
    /\ reqs[r].q.method = "POST" /\ reqs[r].q.path = "/api/parse-resume"
    /\ ~Undecodable(reqs[r].q) /\ reqs[r].q.body.k = "object"

ValidationError(resp) == resp.status = 400 /\ resp.code = "VALIDATION_ERROR"

\* C2: in every deployment variant of POST /chat, a body that fails chat
\* validation is answered 400 VALIDATION_ERROR with a details array that
\* lists every violation of the body
C2_DetailsListEveryViolation ==
    \A r \in Slots :
        (ChatPost(r) /\ Settled(r) /\ RuleChatViolations(reqs[r].q.body) # <<>>) =>
            /\ Answered(r)
            /\ ValidationError(reqs[r].resp)
            /\ reqs[r].resp.hasDetails
            /\ reqs[r].resp.details = RuleChatViolations(reqs[r].q.body)

\* C2 in the three deployments that call validateChatRequest, for bodies
\* with no null message and a model that is undefined or truthy
C2_DetailsWhereValidatorCalled ==
    \A r \in Slots :
        (ChatPost(r) /\ Settled(r) /\ variant # "api"
         /\ (\A i \in 1..Len(reqs[r].q.body.messages.items) :
                reqs[r].q.body.messages.items[i].k = "object")
         /\ (reqs[r].q.body.model.t = "undefined" \/ Truthy(reqs[r].q.body.model))
         /\ RuleChatViolations(reqs[r].q.body) # <<>>) =>
            /\ Answered(r)
            /\ ValidationError(reqs[r].resp)
            /\ reqs[r].resp.hasDetails
            /\ reqs[r].resp.details = RuleChatViolations(reqs[r].q.body)

InRange(v, lo, hi) ==
    v.t = "number" /\ v.n >= lo /\ (v.n < hi \/ (v.n = hi /\ v.f = 0))

\* C3: every chat completion a POST /chat handler sends upstream carries a
\* temperature that is a number in [0, 2] and a max_tokens that is an
\* integer in [1, 4000]
C3_ForwardedSamplingInRange ==
    \A r \in Slots :
        (ChatPost(r) /\ reqs[r].calls > 0) =>
            /\ InRange(reqs[r].sent.temperature, 0, 2)
            /\ InRange(reqs[r].sent.max_tokens, 1, 4000)
            /\ reqs[r].sent.max_tokens.f = 0

\* C3 in the three deployments that call validateChatRequest
C3_InRangeWhereValidatorCalled ==
    \A r \in Slots :
        (ChatPost(r) /\ reqs[r].calls > 0 /\ variant # "api") =>
            /\ InRange(reqs[r].sent.temperature, 0, 2)
            /\ InRange(reqs[r].sent.max_tokens, 1, 4000)
            /\ reqs[r].sent.max_tokens.f = 0

RuleViolated(r) ==
    \/ ChatPost(r) /\ RuleChatViolations(reqs[r].q.body) # <<>>
    \/ ResumePost(r) /\ RuleResumeViolated(reqs[r].q.body)

\* C4: for POST /chat and POST /parse-resume, in every variant, a request
\* whose body fails validation is answered 400 VALIDATION_ERROR and no
\* upstream call is made for it
C4_ValidationPrecedesForwarding ==
    \A r \in Slots :
        RuleViolated(r) =>
            /\ reqs[r].calls = 0
            /\ Settled(r) => (Answered(r) /\ ValidationError(reqs[r].resp))

\* C4 for parse-resume alone, whatever the deployment
C4_ResumeValidationPrecedes ==
    \A r \in Slots :
        (ResumePost(r) /\ RuleResumeViolated(reqs[r].q.body)) =>
            /\ reqs[r].calls = 0
            /\ Settled(r) => (Answered(r) /\ ValidationError(reqs[r].resp))

\* C10: every failure response of every operation and variant is a JSON
\* envelope with both an error string and a code
C10_ErrorAndCode ==
    \A r \in Slots :
        (Answered(r) /\ reqs[r].resp.status >= 400) =>
            (reqs[r].resp.json /\ reqs[r].resp.error # "" /\ reqs[r].resp.code # "")

TooManyRequests(resp) ==
    resp.status = 429 /\ resp.json /\ resp.retryAfter = 15 /\ resp.error # ""

ToApiPrefix(r) == InUse(r) /\ UnderApiPrefix(reqs[r].q.path)

Counted(r) == InUse(r) /\ IsCounted(reqs[r].q)

C6_SharedAcrossRoutesEverywhere ==
    \A r \in Slots : (Counted(r) /\ reqs[r].over) => reqs[r].limited

\* C7: a request the rate limiter rejects is answered 429 at once and
\* reaches neither validation nor the upstream: no call is made for it and
\* its response is the limiter's message
C7_RejectedNeverForwarded ==
    \A r \in Slots :
        reqs[r].limited =>
            /\ Answered(r)
            /\ reqs[r].resp = LimitMessage
            /\ reqs[r].calls = 0 /\ reqs[r].sent = NoSent
            /\ reqs[r].writes = 1

\* a valid chat request, rejected
C7_ValidChatRejected ==
    /\ reqs[1].limited
    /\ reqs[1].q = Request("POST", "/api/chat", ValidChat)

\* C8: the window is fixed: it runs 15 minutes from the client's first
\* counted request and no later request extends it; when it has elapsed
\* the count starts again from nothing, so the next request is admitted
\* and is the first of a new window of 100
C8_FixedWindowReset ==
    variant \in ExpressVariants =>
        /\ store[KeyOf("A")].ttl = observed["A"].left
        /\ observed["A"].left > 0 =>
              store[KeyOf("A")].totalHits = observed["A"].counted
        /\ \A r \in Slots :
              /\ reqs[r].first => ~reqs[r].limited
              /\ (Counted(r) /\ ~reqs[r].over) => ~reqs[r].limited

\* a client that was rejected in its last window, admitted in a new one
C8_AdmittedAgain ==
    /\ variant \in ExpressVariants
    /\ observed["A"].refused
    /\ reqs[1].first /\ ~reqs[1].limited
    /\ store[KeyOf("A")].totalHits = 1

InFlight(r) == reqs[r].pc \in {"fetching", "decoding"}

\* C9: with requests of one client in flight together, every counted
\* request is counted exactly once and no more than 100 are admitted in
\* the window
C9_CountedOnce ==
    /\ store[KeyOf("A")].totalHits = observed["A"].counted
    /\ observed["A"].admitted <= Quota
    /\ \A r \in Slots : Counted(r) => (reqs[r].limited <=> reqs[r].over)

\* the limit reached while two requests of the client are in flight
C9_LimitReachedInFlight ==
    /\ \A r \in Slots : InFlight(r)
    /\ observed["A"].admitted = Quota

\* the vocabulary of error codes
CodeVocabulary ==
    {"VALIDATION_ERROR", "API_KEY_MISSING", "CONFIG_ERROR", "OPENROUTER_ERROR",
     "CONNECTION_ERROR", "PARSE_ERROR", "NOT_FOUND", "SERVER_ERROR"}

\* the one status of a code; that of OPENROUTER_ERROR is the upstream's
StatusOfCode(code, upstream) ==
    CASE code = "VALIDATION_ERROR" -> 400
      [] code \in {"API_KEY_MISSING", "CONFIG_ERROR", "CONNECTION_ERROR",
                   "SERVER_ERROR"} -> 500
      [] code = "OPENROUTER_ERROR" -> upstream
      [] code = "PARSE_ERROR" -> 422
      [] code = "NOT_FOUND" -> 404
      [] OTHER -> 0

UpstreamUnusable(r) ==
    /\ Answered(r) /\ reqs[r].calls > 0
    /\ reqs[r].reply.transport \/ ~reqs[r].reply.decodable

\* C12: for model listing and for chat completion, that of parse-resume
\* included, a transport failure of the upstream call or an undecodable
\* upstream response is answered 500 CONNECTION_ERROR
C12_TransportIsConnectionError ==
    \A r \in Slots :
        UpstreamUnusable(r) =>
            reqs[r].resp.status = 500 /\ reqs[r].resp.code = "CONNECTION_ERROR"

\* C12 for model listing alone
C12_ModelsConnectionError ==
    \A r \in Slots :
        (UpstreamUnusable(r) /\ reqs[r].q.path = "/api/models") =>
            reqs[r].resp.status = 500 /\ reqs[r].resp.code = "CONNECTION_ERROR"

\* what the chat and parse-resume handlers answer instead
C12_CompletionServerError ==
    \A r \in Slots :
        (UpstreamUnusable(r) /\ reqs[r].q.path # "/api/models") =>
            reqs[r].resp.status = 500 /\ reqs[r].resp.code = "SERVER_ERROR"

\* the upstream answered the request's call with a status that is not 2xx
UpstreamRefused(r) ==
    /\ Answered(r) /\ reqs[r].calls > 0
    /\ ~reqs[r].reply.transport
    /\ reqs[r].reply.status < 200 \/ reqs[r].reply.status > 299

\* the upstream's status, OPENROUTER_ERROR, and the upstream's message or
\* the operation's own
HandedOn(r) ==
    /\ reqs[r].resp.status = reqs[r].reply.status
    /\ reqs[r].resp.code = "OPENROUTER_ERROR"
    /\ reqs[r].resp.error =
          IF reqs[r].reply.errMessage.t = "string" /\ reqs[r].reply.errMessage.n > 0
          THEN reqs[r].reply.errMessage.s
          ELSE CASE reqs[r].q.path = "/api/models" -> "Failed to fetch models"
                 [] reqs[r].q.path = "/api/chat" -> "AI request failed"
                 [] OTHER -> "AI parsing failed"

\* C13: every upstream response that is not 2xx, whatever its body, is
\* answered with the upstream's status, OPENROUTER_ERROR and the upstream's
\* error.message or the operation's fallback message
C13_UpstreamStatusPassthrough ==
    \A r \in Slots : UpstreamRefused(r) => HandedOn(r)

\* C13 for the error bodies that decode to a JSON object
C13_PassthroughOfJsonObjects ==
    \A r \in Slots :
        (UpstreamRefused(r) /\ reqs[r].reply.decodable /\ ~reqs[r].reply.nullBody)
            => HandedOn(r)

\* an error body that cannot be decoded, or is null, ends in the catch block
C13_OtherBodiesAnswered500 ==
    \A r \in Slots :
        (UpstreamRefused(r) /\ (~reqs[r].reply.decodable \/ reqs[r].reply.nullBody))
            => (reqs[r].resp.status = 500
                /\ reqs[r].resp.code \in {"CONNECTION_ERROR", "SERVER_ERROR"})

\* a parse-resume request whose upstream call succeeded with a text, or
\* with no content, and the text
TextReturned(r) ==
    /\ Answered(r) /\ reqs[r].calls > 0
    /\ reqs[r].q.path = "/api/parse-resume"
    /\ ~reqs[r].reply.transport /\ reqs[r].reply.decodable
    /\ ~reqs[r].reply.nullBody
    /\ reqs[r].reply.status >= 200 /\ reqs[r].reply.status <= 299
    /\ reqs[r].reply.content.t \in {"string", "undefined", "null"}

UpstreamText(r) ==
    IF reqs[r].reply.content.t = "string" THEN reqs[r].reply.text ELSE <<>>

\* a '{' followed later by a '}'
RuleHasSpan(text) ==
    \E i, j \in 1..Len(text) : i < j /\ text[i] = "{" /\ text[j] = "}"

\* from the first '{' of the text to its last '}'
RuleSpan(text) ==
    LET i == CHOOSE i \in 1..Len(text) :
                 text[i] = "{" /\ \A k \in 1..(i - 1) : text[k] # "{"
        j == CHOOSE j \in 1..Len(text) :
                 text[j] = "}" /\ \A k \in (j + 1)..Len(text) : text[k] # "}"
    IN SubSeq(text, i, j)

RuleDecodes(text) == RuleHasSpan(text) /\ JSONparse(RuleSpan(text)).ok

\* C14: when the output has no brace-delimited span, or one that does not
\* decode, parse-resume answers 422 PARSE_ERROR with rawContent the whole
\* unmodified upstream text; it answers 200 with method "ai" only when the
\* span decoded, and data is the decoded value
C14_ParseFailureIs422WithRawText ==
    \A r \in Slots :
        TextReturned(r) =>
            /\ ~RuleDecodes(UpstreamText(r)) =>
                  /\ reqs[r].resp.status = 422
                  /\ reqs[r].resp.code = "PARSE_ERROR"
                  /\ reqs[r].resp.rawContent = <<UpstreamText(r)>>
            /\ (reqs[r].resp.status = 200 \/ reqs[r].resp.method = "ai") =>
                  /\ RuleDecodes(UpstreamText(r))
                  /\ reqs[r].resp.status = 200 /\ reqs[r].resp.method = "ai"
                  /\ reqs[r].resp.data = <<JSONparse(RuleSpan(UpstreamText(r))).val>>

\* a span that does not decode, inside a longer text
C14_UndecodableSpanInProse ==
    /\ TextReturned(1)
    /\ reqs[1].reply.text = <<"x", "{", "x", "}">>
    /\ reqs[1].resp.status = 422
    /\ reqs[1].resp.rawContent = <<reqs[1].reply.text>>

\* C15: the text handed to the decoder runs from the first '{' of the
\* output to its last '}': an output with a '{' followed later by a '}' is
\* answered by what that span decodes to, or as a span that did not
\* decode, and an output with no such pair as one that has no span
C15_LargestBraceSpan ==
    \A r \in Slots :
        TextReturned(r) =>
            IF RuleHasSpan(UpstreamText(r))
            THEN IF JSONparse(RuleSpan(UpstreamText(r))).ok
                 THEN /\ reqs[r].resp.status = 200
                      /\ reqs[r].resp.data =
                            <<JSONparse(RuleSpan(UpstreamText(r))).val>>
                 ELSE /\ reqs[r].resp.status = 422
                      /\ reqs[r].resp.error = "Failed to parse AI response as JSON"
            ELSE /\ reqs[r].resp.status = 422
                 /\ reqs[r].resp.error = "AI response did not contain valid JSON"

\* prose around an object: the object is what is decoded
C15_ObjectOutOfProse ==
    /\ TextReturned(1)
    /\ reqs[1].reply.text = ProseAroundObject
    /\ reqs[1].resp.status = 200
    /\ reqs[1].resp.data = <<JObject(<<JScalar>>)>>

\* C16: a text that is a string of 1 to 100,000 characters passes the
\* validation of parse-resume, 100,000 included; a missing, non-string or
\* empty text and a text of 100,001 characters or more is answered 400
\* VALIDATION_ERROR
C16_ResumeLengthBoundary ==
    \A r \in Slots :
        ResumePost(r) =>
            IF /\ reqs[r].q.body.text.t = "string"
               /\ reqs[r].q.body.text.n >= 1
               /\ reqs[r].q.body.text.n <= 100000
            THEN reqs[r].calls = 1 /\ ~ValidationError(reqs[r].resp)
            ELSE /\ Answered(r) /\ ValidationError(reqs[r].resp)
                 /\ reqs[r].calls = 0

\* a text of exactly 100,000 characters, sent on
C16_ExactlyMaxAccepted ==
    /\ ResumePost(1)
    /\ reqs[1].q.body.text = Str("resume", 100000)
    /\ reqs[1].calls = 1 /\ reqs[1].sent.url = "chat"

\* a model listing answered from an upstream list
Listed(r) ==
    /\ Answered(r) /\ reqs[r].q.path = "/api/models"
    /\ reqs[r].resp.status = 200 /\ reqs[r].resp.success

\* the upstream model that has the id
UpstreamOf(r, id) ==
    CHOOSE m \in {reqs[r].reply.models[i] : i \in 1..Len(reqs[r].reply.models)} :
        m.id = id

\* free: ':free' in the id, or both prices the string "0"
RuleFree(m) == m.tagged \/ (m.promptZero /\ m.completionZero)

\* the display name: the name, or the id when there is none
RuleName(m) == IF m.name # 0 THEN m.name ELSE m.id

\* a goes before b: free before not free, then by display name
RuleBefore(a, b) ==
    \/ RuleFree(a) /\ ~RuleFree(b)
    \/ RuleFree(a) = RuleFree(b) /\ RuleName(a) < RuleName(b)

\* C17: in the list returned, every free model precedes every model that is
\* not free and models of equal free-ness are in ascending order of display
\* name; each isFree is the predicate of the upstream model, and the
\* comparator is a total and consistent ordering
C17_FreeFirstThenByName ==
    /\ \A r \in Slots :
          Listed(r) =>
              LET out == reqs[r].resp.models
              IN /\ \A i \in 1..Len(out) :
                       /\ out[i].isFree = RuleFree(UpstreamOf(r, out[i].id))
                       /\ out[i].name = RuleName(UpstreamOf(r, out[i].id))
                 /\ \A i, j \in 1..Len(out) :
                       i < j =>
                          /\ out[j].isFree => out[i].isFree
                          /\ out[i].isFree = out[j].isFree => out[i].name <= out[j].name
    /\ \A a, b \in ModelKinds :
          /\ Compare(a, b) = 0 - Compare(b, a)
          /\ Compare(a, b) < 0 <=> RuleBefore(a, b)
    /\ \A a, b, c \in ModelKinds :
          (Compare(a, b) <= 0 /\ Compare(b, c) <= 0) => Compare(a, c) <= 0

\* [{id: "b:free"}, {id: "a"}, {id: "c:free"}] comes back as b:free, c:free, a
C17_FreeModelsAheadOfA ==
    /\ Listed(1)
    /\ reqs[1].reply.models =
          <<UpstreamModel(2, TRUE, 0, FALSE, FALSE),
            UpstreamModel(1, FALSE, 0, FALSE, FALSE),
            UpstreamModel(3, TRUE, 0, FALSE, FALSE)>>
    /\ reqs[1].resp.models =
          <<[id |-> 2, name |-> 2, isFree |-> TRUE],
            [id |-> 3, name |-> 3, isFree |-> TRUE],
            [id |-> 1, name |-> 1, isFree |-> FALSE]>>

Returned(r) == {reqs[r].resp.models[i].id : i \in 1..Len(reqs[r].resp.models)}

Upstream(r) == {reqs[r].reply.models[i].id : i \in 1..Len(reqs[r].reply.models)}

\* C18: totalCount is the length of the upstream list, the models returned
\* are min(n, 50) of them, and they are the first of the sorted order: no
\* model left out goes before one that is returned, so no model that is
\* not free is returned while a free one is left out
C18_FirstPageOfSortedOrder ==
    \A r \in Slots :
        Listed(r) =>
            LET n == Len(reqs[r].reply.models)
            IN /\ reqs[r].resp.totalCount = n
               /\ Len(reqs[r].resp.models) = IF n < 50 THEN n ELSE 50
               /\ Cardinality(Returned(r)) = Len(reqs[r].resp.models)
               /\ Returned(r) \subseteq Upstream(r)
               /\ \A left \in Upstream(r) \ Returned(r), kept \in Returned(r) :
                     /\ ~RuleBefore(UpstreamOf(r, left), UpstreamOf(r, kept))
                     /\ RuleFree(UpstreamOf(r, left)) => RuleFree(UpstreamOf(r, kept))

\* the free model at the end of an upstream list of 52 heads the page of 50
C18_FreeModelFromBeyondThePage ==
    /\ Listed(1)
    /\ Len(reqs[1].reply.models) = 52
    /\ reqs[1].reply.models[52].id = 2
    /\ reqs[1].resp.totalCount = 52
    /\ Len(reqs[1].resp.models) = 50
    /\ reqs[1].resp.models[1].id = 2

\* the upstream answered the request's call 2xx with a JSON object
UpstreamSucceeded(r) ==
    /\ Answered(r) /\ reqs[r].calls > 0
    /\ ~reqs[r].reply.transport /\ reqs[r].reply.decodable
    /\ ~reqs[r].reply.nullBody
    /\ reqs[r].reply.status >= 200 /\ reqs[r].reply.status <= 299

\* the model sent is the caller's when the caller supplied one, the
\* default when the caller supplied none
ModelResolved(r) ==
    /\ (reqs[r].q.body.model.t = "string" /\ reqs[r].q.body.model.n > 0) =>
          reqs[r].sent.model = reqs[r].q.body.model
    /\ reqs[r].q.body.model.t = "undefined" =>
          reqs[r].sent.model = Str("meta-llama/llama-3.1-8b-instruct:free", 37)

\* C19: a successful chat completion is answered 200 {success: true,
\* content, model, usage}: content is the upstream's content or the empty
\* string when there is none, usage is the upstream's, model is the model
\* that was sent upstream, the caller's or else the default; parse-resume
\* resolves its model the same way
C19_ChatSuccessEnvelope ==
    \A r \in Slots :
        /\ (UpstreamSucceeded(r) /\ reqs[r].q.path = "/api/chat") =>
              /\ reqs[r].resp.status = 200 /\ reqs[r].resp.success
              /\ reqs[r].resp.model = reqs[r].sent.model
              /\ reqs[r].resp.usage = reqs[r].reply.usage
              /\ reqs[r].resp.content =
                    IF reqs[r].reply.content.t = "undefined" THEN Str("", 0)
                    ELSE reqs[r].reply.content
        /\ (reqs[r].calls > 0
            /\ reqs[r].q.path \in {"/api/chat", "/api/parse-resume"}) =>
              ModelResolved(r)

\* a completion for the caller's own model, and its usage, handed back
C19_CallersModelEchoed ==
    /\ UpstreamSucceeded(1) /\ reqs[1].q.path = "/api/chat"
    /\ reqs[1].q.body.model = Str("some/model", 10)
    /\ reqs[1].resp.model = Str("some/model", 10)
    /\ reqs[1].resp.usage = Usage
    /\ reqs[1].resp.content.t = "string" /\ reqs[1].resp.content.n > 0

\* a request of the right method to the handler of models, chat or
\* parse-resume, with a body the Express app could decode
ToUpstreamHandler(r) ==
    /\ InUse(r) /\ ~Undecodable(reqs[r].q)
    /\ \/ reqs[r].q.method = "GET" /\ reqs[r].q.path = "/api/models"
       \/ reqs[r].q.method = "POST"
          /\ reqs[r].q.path \in {"/api/chat", "/api/parse-resume"}

\* C20: no upstream call is made without a credential: without
\* OPENROUTER_API_KEY the process of src/server.js does not serve, and the
\* handlers of models, chat and parse-resume of the other deployments answer
\* 500 API_KEY_MISSING, the standalone chat handler 500 CONFIG_ERROR once
\* the body has passed its validation, and none contacts the upstream
C20_NoCallWithoutCredential ==
    \A r \in Slots :
        /\ reqs[r].calls > 0 =>
              (Truthy(apiKey) /\ reqs[r].sent.key = apiKey)
        /\ (InUse(r) /\ ~Truthy(apiKey)) =>
              /\ variant # "server"
              /\ reqs[r].calls = 0 /\ reqs[r].sent = NoSent
              /\ (ToUpstreamHandler(r) /\ variant \in {"index", "api"}) =>
                    /\ Answered(r) /\ reqs[r].resp.status = 500
                    /\ reqs[r].resp.code = "API_KEY_MISSING"
              /\ (ToUpstreamHandler(r) /\ variant = "alt"
                  /\ ~validateChatRequest(reqs[r].q.body).threw
                  /\ validateChatRequest(reqs[r].q.body).errors = <<>>) =>
                    /\ Answered(r) /\ reqs[r].resp.status = 500
                    /\ reqs[r].resp.code = "CONFIG_ERROR"

\* a valid chat request to a deployment without a key, turned away
C20_ValidChatWithoutKey ==
    /\ ~Truthy(apiKey)
    /\ ToUpstreamHandler(1) /\ reqs[1].q.path = "/api/chat"
    /\ reqs[1].q.body = ValidChat
    /\ reqs[1].resp.status = 500 /\ reqs[1].calls = 0

\* C21: a request causes at most one upstream call, and when that call
\* fails, by its status or in transport, the request ends with an error
\* response and no second call
C21_NoRetries ==
    \A r \in Slots :
        /\ reqs[r].calls <= 1
        /\ (reqs[r].calls = 1 /\ Settled(r)
            /\ (reqs[r].reply.transport \/ ~Ok(reqs[r].reply.status))) =>
              /\ Answered(r)
              /\ reqs[r].resp.status >= 400 /\ reqs[r].resp.error # ""

\* a chat request whose one call failed in transport, answered 500
C21_FailedOnceAnswered ==
    /\ Answered(1) /\ reqs[1].q.path = "/api/chat"
    /\ reqs[1].calls = 1 /\ reqs[1].reply.transport
    /\ reqs[1].resp.status = 500

\* a second credential that the health operations count as configured
OtherKey == Str("sk-or-v1-other", 41)

\* what the health operation of the deployment says of a key
ConfiguredByHealth(key) ==
    Route(variant, key, Request("GET", "/api/health", EmptyBody)).resp.apiConfigured
        = Bool(TRUE)

\* the responses the request of slot r, with the upstream reply it got, can
\* end in when the process holds the given key
Answers(key, r) ==
    LET q == reqs[r].q
        a == IF variant \in ExpressVariants /\ Preflight(q) THEN Respond(EndResp(204))
             ELSE IF variant \in ExpressVariants /\ Undecodable(q) THEN Respond(ServerError)
             ELSE Route(variant, key, q)
    IN CASE a.act = "respond" -> {a.resp}
         [] a.act = "fetch" ->
              {IF reqs[r].reply.transport THEN CatchResp(q.path)
               ELSE Decoded(q.path, a.sent, reqs[r].reply)}
         [] OTHER -> {t.resp : t \in ThrowOutcomes}

\* C22: for any two keys that health counts as configured, the same request
\* with the same upstream reply gets the same response: nothing of the key
\* but the boolean apiConfigured reaches the client
C22_KeyKeptOffTheClient ==
    \A r \in Slots :
        (Answered(r) /\ ~reqs[r].limited /\ ConfiguredByHealth(apiKey)) =>
            \A other \in Keys \cup {OtherKey} :
                ConfiguredByHealth(other) => reqs[r].resp \in Answers(other, r)

\* the upstream refused a chat call made with the key, and the client got
\* the upstream's message
C22_RefusedWithKeyInUse ==
    /\ Answered(1) /\ reqs[1].q.path = "/api/chat"
    /\ ConfiguredByHealth(apiKey) /\ reqs[1].sent.key = apiKey
    /\ reqs[1].calls = 1 /\ reqs[1].reply.status = 401
    /\ reqs[1].resp.status = 401

\* C23: the chat validator never throws: for every decoded body, an absent
\* one and a list with null elements included, it returns a list of
\* violations that is empty exactly when the body is valid
C23_ValidatorNeverThrows ==
    vResult.called =>
        /\ ~vResult.threw
        /\ (vResult.errors = <<>>) <=> (RuleChatViolations(vBody) = <<>>)

\* C23, in the pipeline: a chat request with an absent body or a null
\* message ends in 400 VALIDATION_ERROR, never in a 500 or without an answer
C23_MalformedChatAnswered400 ==
    \A r \in Slots :
        (InUse(r) /\ Truthy(apiKey) /\ ~reqs[r].limited
         /\ reqs[r].q.method = "POST" /\ reqs[r].q.path = "/api/chat"
         /\ ~Undecodable(reqs[r].q)
         /\ \/ reqs[r].q.body.k = "undefined"
            \/ /\ reqs[r].q.body.messages.t = "array"
               /\ \E i \in 1..Len(reqs[r].q.body.messages.items) :
                      reqs[r].q.body.messages.items[i] = NullMsg) =>
            /\ reqs[r].pc = "done"
            /\ ValidationError(reqs[r].resp)

\* C23, where it holds: a body that is an object whose messages are objects
\* is never the occasion of a throw
C23_NoThrowOnObjectMessages ==
    (vResult.called /\ vBody.k = "object"
     /\ (vBody.messages.t = "array" =>
            \A i \in 1..Len(vBody.messages.items) :
                vBody.messages.items[i].k = "object")) =>
        ~vResult.threw

\* C24: a chat request whose model is present and not a string is rejected
\* with the violation of the model, so the model sent upstream for chat is
\* a string: the caller's or the default
C24_NonStringModelRejected ==
    \A r \in Slots :
        /\ (ChatPost(r) /\ ~reqs[r].limited
            /\ RuleChatViolations(reqs[r].q.body) = <<Violation("model", -1)>>) =>
              /\ reqs[r].calls = 0
              /\ Settled(r) =>
                    (Answered(r) /\ ValidationError(reqs[r].resp))
        /\ (ChatPost(r) /\ reqs[r].calls = 1) => TypeOf(reqs[r].sent.model) = "string"

\* C24, of the validator alone: a model that is present and not a string
\* is among the violations
C24_ValidatorNamesTheModel ==
    (vResult.called /\ ~vResult.threw
     /\ TypeOf(vBody.model) \notin {"undefined", "string"}) =>
        \E i \in 1..Len(vResult.errors) : vResult.errors[i] = Violation("model", -1)

\* C24, where it holds: in the deployments that call the validator a truthy
\* model that is not a string is rejected, and the model sent is a string
C24_TruthyNonStringRejected ==
    \A r \in Slots :
        (ChatPost(r) /\ variant # "api") =>
            /\ (Truthy(reqs[r].q.body.model)
                /\ TypeOf(reqs[r].q.body.model) # "string") => reqs[r].calls = 0
            /\ reqs[r].calls = 1 => TypeOf(reqs[r].sent.model) = "string"

\* C25: the response to an admitted request is a function of that request,
\* the configuration and the upstream reply to it, whatever was handled
\* before it, from any client, and whatever is in flight beside it
C25_ResponseOfOwnRequestOnly ==
    \A r \in Slots :
        (Answered(r) /\ ~reqs[r].limited) =>
            /\ Cardinality(Answers(apiKey, r)) = 1
            /\ reqs[r].resp \in Answers(apiKey, r)

\* a chat request answered with the default model after requests of both
\* clients, while a chat request that names another model is in flight
C25_AnsweredBesideAnother ==
    /\ Answered(1) /\ reqs[1].q = Request("POST", "/api/chat", ValidChat)
    /\ reqs[1].resp.status = 200 /\ reqs[1].resp.model = DefaultModel
    /\ reqs[2].pc = "decoding" /\ reqs[2].q = Request("POST", "/api/chat", ChatWithModel)
    /\ reqs[1].ip # reqs[2].ip
    /\ observed["A"].all + observed["B"].all = MaxHistory

\* C26: every request is answered with exactly one response: no control
\* path of a handler leaves the request without a response or writes a
\* second one
C26_ExactlyOneResponse ==
    \A r \in Slots :
        /\ reqs[r].writes <= 1
        /\ Settled(r) => (Answered(r) /\ reqs[r].writes = 1)

\* C26, where it holds: a request whose handler does not throw outside its
\* try block is settled with exactly one response written
C26_OneResponseUnlessThrown ==
    \A r \in Slots :
        /\ reqs[r].writes <= 1
        /\ (Settled(r) /\ Route(variant, apiKey, reqs[r].q).act # "throw") =>
              (Answered(r) /\ reqs[r].writes = 1)

\* C27: the counter and the window of a client follow that client's requests
\* alone: a request is rejected exactly when its own client is over the
\* limit in its own window, so a client that sends a few requests is never
\* rejected, whatever another client has sent
C27_CountersPerClient ==
    variant \in ExpressVariants =>
        /\ \A ip \in IPs :
              /\ store[KeyOf(ip)].ttl = observed[ip].left
              /\ observed[ip].left > 0 =>
                    store[KeyOf(ip)].totalHits = observed[ip].counted
        /\ \A r \in Slots :
              /\ Counted(r) => (reqs[r].limited <=> reqs[r].over)
              /\ (Counted(r) /\ reqs[r].ip = "B") => ~reqs[r].limited

\* client B is admitted in a window in which client A has been rejected
C27_AdmittedBesideARejectedClient ==
    /\ variant \in ExpressVariants
    /\ reqs[1].ip = "B" /\ Answered(1) /\ ~reqs[1].limited
    /\ reqs[1].resp.status = 200
    /\ observed["A"].left > 0 /\ observed["A"].counted > Quota
    /\ observed["A"].admitted = Quota
    /\ store[KeyOf("B")].totalHits = 1

====
